---------------------------- MODULE Spec2Model ----------------------------
(***************************************************************************)
(* TestMate: the scenario-to-project path of the repository.               *)
(*                                                                         *)
(*   ExcelProcessor.read_test_scenarios   (ai_modules/excel_processor.py)  *)
(*   CodeGenerator.generate_test_project  (ai_modules/code_generator.py)   *)
(*   generate_project / download_project  (app/main.py)                    *)
(*                                                                         *)
(* Text: a string is a sequence of atoms.  Where the code looks inside a   *)
(* string (lower(), re.sub, split, a substring test) the atoms are its     *)
(* characters ("a", "T", "_", ...); the non-ASCII letters the action table *)
(* needs are the atoms "c_cedilla" (U+00E7), "C_cedilla" (U+00C7) and      *)
(* "dotless_i" (U+0131).  A piece of template text the code only copies is *)
(* one atom, written in ASCII.  The empty string is <<>>.                  *)
(***************************************************************************)
EXTENDS Integers, Sequences, FiniteSets, TLC

VARIABLES
    columns,      \* the column names in the header of that sheet
    rows,         \* the data rows of the sheet handed to read_test_scenarios
    readResult,   \* what read_test_scenarios returned (or that it raised)
    lowStep,      \* the step handed to _generate_step_code
    lowFramework, \* the framework handed to _generate_step_code
    lowResult,    \* what _generate_step_code returned
    lowJavaResult, \* what _generate_java_step_code returned for the same step
    validation,   \* what validate_test_scenarios returned
    valScenarios, \* the scenario list handed to validate_test_scenarios
    files,        \* the files below the working directory: path -> content, mode
    dirs,         \* the directories below the working directory
    exports,      \* the archives in exports/: zip name -> entries
    os_name,      \* os.name of the host: "posix" or "nt"
    now,          \* the clock, in seconds
    current_usage,\* licenses.current_usage['excel_processing'] of each user
    calls,        \* the generate_project requests served so far, oldest first
    lastDownload, \* the last download_project request served
    procs         \* the calls of generate_test_project that run side by side

readerVars == <<columns, rows, readResult>>
lowerVars == <<lowStep, lowFramework, lowResult, lowJavaResult, validation,
               valScenarios>>
diskVars == <<files, dirs, exports>>
serverVars == <<files, dirs, exports, os_name, now, current_usage, calls, lastDownload,
               procs>>
vars == <<columns, rows, readResult, lowStep, lowFramework, lowResult, lowJavaResult,
          validation,
          valScenarios,
          files, dirs, exports, os_name, now, current_usage, calls, lastDownload,
          procs>>

----------------------------------------------------------------------------
(* Characters and strings                                                  *)

UpperAZ == <<"A","B","C","D","E","F","G","H","I","J","K","L","M",
             "N","O","P","Q","R","S","T","U","V","W","X","Y","Z">>
LowerAZ == <<"a","b","c","d","e","f","g","h","i","j","k","l","m",
             "n","o","p","q","r","s","t","u","v","w","x","y","z">>
Digits  == <<"0","1","2","3","4","5","6","7","8","9">>

Range(f) == { f[i] : i \in DOMAIN f }

IsUpper(c) == c \in Range(UpperAZ)
IsLower(c) == c \in Range(LowerAZ)
IsAsciiAlpha(c) == IsUpper(c) \/ IsLower(c)
IsDigit(c) == c \in Range(Digits)
IsSpace(c) == c = " "

IndexIn(c, table) == CHOOSE i \in DOMAIN table : table[i] = c

\* str.lower() on one character
LowerChar(c) ==
    IF IsUpper(c) THEN LowerAZ[IndexIn(c, UpperAZ)]
    ELSE IF c = "C_cedilla" THEN "c_cedilla"
    ELSE c

\* str.upper() on one character ("dotless_i".upper() is "I")
UpperChar(c) ==
    IF IsLower(c) THEN UpperAZ[IndexIn(c, LowerAZ)]
    ELSE IF c = "c_cedilla" THEN "C_cedilla"
    ELSE IF c = "dotless_i" THEN "I"
    ELSE c

\* str.lower()
Lower(s) == [i \in 1..Len(s) |-> LowerChar(s[i])]

RECURSIVE Join(_)
\* ''.join(parts)
Join(parts) == IF parts = <<>> THEN <<>> ELSE Head(parts) \o Join(Tail(parts))

RECURSIVE DecimalStr(_)
\* str(n) for an int n >= 0
DecimalStr(n) ==
    IF n < 10 THEN <<Digits[n + 1]>>
    ELSE DecimalStr(n \div 10) \o <<Digits[(n % 10) + 1]>>

----------------------------------------------------------------------------
(* ExcelProcessor.read_test_scenarios                                      *)

\* a cell of the step-number column: <<n>> holds the number n, <<>> is an
\* empty cell (NaN in the DataFrame, '' after df.fillna(''))
EmptyCell == <<>>
NumberCell(n) == <<n>>

\* pandas reads a numeric column with a missing cell as float64, so that
\* after fillna('') its numbers are floats; a column without a missing cell
\* is int64
StepColumnIsFloat(sheet) == \E i \in DOMAIN sheet : sheet[i].step_no = EmptyCell

\* f"{step_number}" for the cell row.get('Adim No', 1)
FormatStepCell(cell, isFloat) ==
    IF cell = EmptyCell THEN <<>>
    ELSE IF isFloat THEN DecimalStr(cell[1]) \o <<".", "0">>
    ELSE DecimalStr(cell[1])

\* the columns read_test_scenarios looks up by name whose absence the
\* header of a sheet can show
Col_TestId == "Test ID"
Col_StepNo == "Adim No"
AllColumns == { Col_TestId, Col_StepNo }

\* row.get(name, default) on a row of the frame: the cell of a column the
\* header has, else the default of the call: '' for 'Test ID' (line 120),
\* 1 for 'Adim No' (lines 128 and 142, where pd.notna(None) is False)
RowGet(row, header) ==
    [row EXCEPT !.test_id = IF Col_TestId \in header THEN @ ELSE <<>>,
                !.step_no = IF Col_StepNo \in header THEN @ ELSE NumberCell(1)]

\* the rows of df as the loop of line 119 reads them
DataFrame(sheet, header) == [i \in DOMAIN sheet |-> RowGet(sheet[i], header)]

\* any(scenario['test_id'] == unique_test_id for scenario in test_scenarios)
IdTaken(test_scenarios, id) ==
    \E k \in DOMAIN test_scenarios : test_scenarios[k].test_id = id

\* lines 126-129: the id given to the scenario of one row
UniqueTestId(test_scenarios, row, isFloat) ==
    IF IdTaken(test_scenarios, row.test_id)
    THEN row.test_id \o <<"_","s","t","e","p","_">> \o FormatStepCell(row.step_no, isFloat)
    ELSE row.test_id

\* lines 141-151: the step built from one row; int('') raises ValueError
StepRaises(row) == row.step_no = EmptyCell

StepOfRow(row) ==
    [ step_number     |-> row.step_no[1],
      description     |-> row.description,
      locator_type    |-> row.locator_type,
      locator_value   |-> row.locator_value,
      action          |-> row.action,
      test_data       |-> row.test_data,
      expected_result |-> row.expected_result ]

\* lines 131-138 and 153: the scenario built from one row
ScenarioOfRow(test_scenarios, row, isFloat) ==
    [ test_id          |-> UniqueTestId(test_scenarios, row, isFloat),
      test_name        |-> row.test_name,
      test_description |-> row.test_description,
      priority         |-> row.priority,
      test_type        |-> row.test_type,
      steps            |-> <<StepOfRow(row)>> ]

\* A variant that groups: a row whose Test ID is already present adds its
\* step to that scenario instead of starting a scenario of its own.
AddRowGrouping(test_scenarios, row, isFloat) ==
    IF IdTaken(test_scenarios, row.test_id)
    THEN [ k \in DOMAIN test_scenarios |->
             IF test_scenarios[k].test_id = row.test_id
             THEN [test_scenarios[k] EXCEPT !.steps = Append(@, StepOfRow(row))]
             ELSE test_scenarios[k] ]
    ELSE Append(test_scenarios, ScenarioOfRow(test_scenarios, row, isFloat))

\* lines 124-154: what one row with a Test ID adds to test_scenarios
AddRow(test_scenarios, row, isFloat) ==
    Append(test_scenarios, ScenarioOfRow(test_scenarios, row, isFloat))

\* the outcome of a call: the list returned (line 156), or the Exception
\* of line 159
ReadOk(scenarios) == [status |-> "returned", scenarios |-> scenarios]
ReadFailed == [status |-> "raised", scenarios |-> <<>>]
NotRun == [status |-> "not run", scenarios |-> <<>>]

RECURSIVE ReadFrom(_, _, _)
\* lines 119-156: the loop over df.iterrows(), from row i on
ReadFrom(sheet, i, test_scenarios) ==
    IF i > Len(sheet) THEN ReadOk(test_scenarios)
    ELSE IF sheet[i].test_id = <<>> THEN ReadFrom(sheet, i + 1, test_scenarios)
    ELSE IF StepRaises(sheet[i]) THEN ReadFailed
    ELSE ReadFrom(sheet, i + 1,
                  AddRow(test_scenarios, sheet[i], StepColumnIsFloat(sheet)))

\* lines 108-159
read_test_scenarios(sheet) == ReadFrom(sheet, 1, <<>>)

----------------------------------------------------------------------------
(* CodeGenerator: the framework registry                                   *)

F_selenium      == <<"s","e","l","e","n","i","u","m">>
F_appium        == <<"a","p","p","i","u","m">>
F_requests      == <<"r","e","q","u","e","s","t","s">>
F_selenium_java == F_selenium \o <<"-","j","a","v","a">>
F_appium_java   == F_appium \o <<"-","j","a","v","a">>
F_rest_assured  == <<"r","e","s","t","-","a","s","s","u","r","e","d">>
F_webdriverio   == <<"w","e","b","d","r","i","v","e","r","i","o">>
F_karate        == <<"k","a","r","a","t","e">>
F_playwright    == <<"p","l","a","y","w","r","i","g","h","t">>
F_cypress       == <<"c","y","p","r","e","s","s">>

\* the keys of self.framework_templates
FrameworkIds ==
    { F_selenium, F_appium, F_requests, F_selenium_java, F_appium_java,
      F_rest_assured, F_webdriverio, F_karate, F_playwright, F_cypress }

\* self.framework_templates: imports, setup, teardown and wait of each entry;
\* each is text the generator copies into the test file
framework_templates ==
    [ f \in FrameworkIds |->
        [ imports  |-> <<"imports of ">> \o f,
          setup    |-> <<"setup of ">> \o f,
          teardown |-> <<"teardown of ">> \o f,
          wait     |-> <<"wait of ">> \o f ] ]

\* app/main.py, get_frameworks: the registry ids offered for each test type
WebFrameworks == { F_selenium, F_playwright, F_cypress }
MobileFrameworks == { F_appium }
ApiFrameworks == { F_requests }

\* the library the imports of a framework's template come from
ImportedLibrary(f) ==
    CASE f = F_selenium      -> "selenium"
      [] f = F_appium        -> "Appium-Python-Client"
      [] f = F_requests      -> "requests"
      [] f = F_selenium_java -> "selenium-java"
      [] f = F_appium_java   -> "io.appium:java-client"
      [] f = F_rest_assured  -> "rest-assured"
      [] f = F_webdriverio   -> "@wdio/globals"
      [] f = F_karate        -> "karate-junit5"
      [] f = F_playwright    -> "@playwright/test"
      [] OTHER               -> "cypress"

----------------------------------------------------------------------------
(* CodeGenerator._generate_step_code                                       *)

\* the action tokens of the if/elif chain
Tok_ac    == <<"a", "c_cedilla">>
Tok_tikla == <<"t", "dotless_i", "k", "l", "a">>
Tok_yaz   == <<"y", "a", "z">>
Tok_bekle == <<"b", "e", "k", "l", "e">>
Tok_sec   == <<"s", "e", "c_cedilla">>

Loc_id    == <<"i","d">>
Loc_class == <<"c","l","a","s","s">>
Loc_xpath == <<"x","p","a","t","h">>
Loc_css   == <<"c","s","s">>
Loc_name  == <<"n","a","m","e">>
Loc_link  == <<"l","i","n","k">>

\* the keys of locator_map
LocatorVocabulary == { Loc_id, Loc_class, Loc_xpath, Loc_css, Loc_name, Loc_link }

\* A variant without the default of dict.get: a strategy that is no key of
\* locator_map is passed on as the constant.
LocatorConstantPassThrough(locator_type) ==
    CASE locator_type = Loc_id    -> "ID"
      [] locator_type = Loc_class -> "CLASS_NAME"
      [] locator_type = Loc_xpath -> "XPATH"
      [] locator_type = Loc_css   -> "CSS_SELECTOR"
      [] locator_type = Loc_name  -> "NAME"
      [] locator_type = Loc_link  -> "LINK_TEXT"
      [] OTHER                    -> "UNKNOWN"

\* locator_map of the selenium and appium branches, without the By. or
\* MobileBy. prefix, which is the same for all six entries
LocatorConstant(locator_type) ==
    CASE locator_type = Loc_id    -> "ID"
      [] locator_type = Loc_class -> "CLASS_NAME"
      [] locator_type = Loc_xpath -> "XPATH"
      [] locator_type = Loc_css   -> "CSS_SELECTOR"
      [] locator_type = Loc_name  -> "NAME"
      [] locator_type = Loc_link  -> "LINK_TEXT"
      [] OTHER                    -> "ID"

\* lines 479-506
get_element_code(locator_type, locator_value, framework) ==
    IF framework = F_selenium
    THEN <<"self.wait.until(EC.element_to_be_clickable((", "By.",
           LocatorConstant(locator_type), ", '">> \o locator_value \o <<"')))">>
    ELSE IF framework = F_appium
    THEN <<"self.wait.until(EC.element_to_be_clickable((", "MobileBy.",
           LocatorConstant(locator_type), ", '">> \o locator_value \o <<"')))">>
    ELSE <<"#", " Element bulma kodu: ">> \o locator_type \o <<" = '">>
           \o locator_value \o <<"'">>

\* the action tokens _generate_step_code has a branch for
ActionTable == { Tok_ac, Tok_tikla, Tok_yaz, Tok_bekle, Tok_sec }

\* lines 435-442
OpenLines(test_data, framework) ==
    IF framework = F_selenium
    THEN << <<"self.driver.get('">> \o test_data \o <<"')">> >>
    ELSE IF framework = F_appium
    THEN << <<"#", " Uygulama zaten acik">> >>
    ELSE IF framework = F_requests
    THEN << <<"response = self.session.get('">> \o test_data \o <<"')">>,
            <<"assert response.status_code == 200">> >>
    ELSE <<>>

\* lines 444-448
ClickLines(locator_type, locator_value, framework) ==
    IF locator_value # <<>>
    THEN << <<"element = ">> \o get_element_code(locator_type, locator_value, framework),
            <<"element.click()">> >>
    ELSE <<>>

\* lines 450-455
TypeLines(locator_type, locator_value, test_data, framework) ==
    IF locator_value # <<>> /\ test_data # <<>>
    THEN << <<"element = ">> \o get_element_code(locator_type, locator_value, framework),
            <<"element.clear()">>,
            <<"element.send_keys('">> \o test_data \o <<"')">> >>
    ELSE <<>>

\* lines 457-463
WaitLines(framework) ==
    IF framework \in {F_selenium, F_appium} THEN << <<"time.sleep(2)">> >>
    ELSE IF framework = F_requests THEN << <<"time.sleep(1)">> >>
    ELSE <<>>

\* lines 465-470
SelectLines(locator_type, locator_value, test_data, framework) ==
    IF locator_value # <<>> /\ test_data # <<>>
    THEN << <<"element = ">> \o get_element_code(locator_type, locator_value, framework),
            <<"element.click()">> >>
    ELSE <<>>

\* lines 472-475
ExpectedLines(expected_result) ==
    IF expected_result # <<>>
    THEN << <<"#", " Beklenen sonuc: ">> \o expected_result >>
    ELSE <<>>

\* lines 426-477: the list of code lines of one step
generate_step_code(step, framework) ==
    LET action == Lower(step.action)
        locator_type == Lower(step.locator_type)
        locator_value == step.locator_value
        test_data == step.test_data
        body ==
            CASE action = Tok_ac    -> OpenLines(test_data, framework)
              [] action = Tok_tikla -> ClickLines(locator_type, locator_value, framework)
              [] action = Tok_yaz   -> TypeLines(locator_type, locator_value, test_data, framework)
              [] action = Tok_bekle -> WaitLines(framework)
              [] action = Tok_sec   -> SelectLines(locator_type, locator_value, test_data, framework)
              [] OTHER              -> <<>>
    IN body \o ExpectedLines(step.expected_result)

----------------------------------------------------------------------------
(* CodeGenerator: names                                                    *)

IsAsciiAlnum(c) == IsAsciiAlpha(c) \/ IsDigit(c)

\* str.upper()
Upper(s) == [i \in 1..Len(s) |-> UpperChar(s[i])]

\* str.capitalize(): the first character upper-cased, the others lower-cased
Capitalize(w) == IF w = <<>> THEN <<>> ELSE <<UpperChar(w[1])>> \o Lower(Tail(w))

RECURSIVE SplitOn(_, _, _)
\* str.split(sep): the pieces of s between separators, empty pieces included;
\* cur is the piece being read
SplitOn(s, sep, cur) ==
    IF s = <<>> THEN <<cur>>
    ELSE IF Head(s) = sep THEN <<cur>> \o SplitOn(Tail(s), sep, <<>>)
    ELSE SplitOn(Tail(s), sep, Append(cur, Head(s)))

\* str.split(): the words of s, no empty piece
Words(s) == SelectSeq(SplitOn(s, " ", <<>>), LAMBDA w : w # <<>>)

\* s.replace(c, '')
Without(s, c) == SelectSeq(s, LAMBDA x : x # c)

\* sub in s
Contains(s, sub) ==
    \E i \in 0..(Len(s) - Len(sub)) : SubSeq(s, i + 1, i + Len(sub)) = sub

\* lines 394-400
generate_class_name(test_name) ==
    LET clean == SelectSeq(test_name, LAMBDA c : IsAsciiAlnum(c) \/ IsSpace(c))
        words == Words(clean)
    IN <<"T","e","s","t">> \o Join([i \in DOMAIN words |-> Capitalize(words[i])])

\* line 953: re.sub(r'[^a-zA-Z0-9]', '', test_name)
JavaStripped(test_name) == SelectSeq(test_name, IsAsciiAlnum)

\* line 954: class_name[0] raises IndexError on the empty string
JavaClassNameRaises(test_name) == JavaStripped(test_name) = <<>>

\* lines 950-956, for a name on which line 954 does not raise
generate_java_class_name(test_name) ==
    LET class_name == JavaStripped(test_name)
    IN (IF ~IsAsciiAlpha(class_name[1]) THEN <<"T","e","s","t">> ELSE <<>>)
       \o class_name \o <<"T","e","s","t">>

\* lines 941-948
get_java_framework(framework) ==
    CASE framework = F_selenium -> F_selenium_java
      [] framework = F_appium   -> F_appium_java
      [] framework = F_requests -> F_rest_assured
      [] OTHER                  -> F_selenium_java

----------------------------------------------------------------------------
(* CodeGenerator: the per-scenario sources                                 *)

\* line 413: every line of a step, indented
Indented(lines) == [i \in DOMAIN lines |-> <<"            ">> \o lines[i]]

RECURSIVE StepsCode(_, _)
\* lines 411-413: the lines of the steps, in the order of the step list
StepsCode(steps, framework) ==
    IF steps = <<>> THEN <<>>
    ELSE Indented(generate_step_code(Head(steps), framework))
         \o StepsCode(Tail(steps), framework)

\* lines 402-424
generate_test_method(scenario, framework) ==
    << <<"    def test_">> \o Lower(scenario.test_id) \o <<"(self):">>,
       <<"        doc ">> \o scenario.test_description,
       <<"        try:">> >>
    \o StepsCode(scenario.steps, framework)
    \o << <<"            ", "#", " Test basarili">>,
          <<"            assert True">>,
          <<"        except Exception as e:">>,
          <<"            ", "#", " Hata durumunda ekran goruntusu al">> >>
    \o (IF framework = F_selenium
        THEN << <<"            self.driver.save_screenshot(f'screenshots/error_">>
                \o scenario.test_id \o <<".png')">> >>
        ELSE <<>>)
    \o << <<"            raise e">> >>

\* lines 510-513: self.framework_templates[framework] raises KeyError
TestFileContentRaises(framework) == framework \notin FrameworkIds

\* lines 508-534, for a framework of the registry
generate_test_file_content(class_name, test_method, framework) ==
    LET t == framework_templates[framework]
    IN << t.imports,
          <<"from config import Config">>,
          <<"class ">> \o class_name \o <<":">>,
          <<"        ">> \o t.setup,
          <<"        self.wait = ">> \o t.wait,
          <<"        ">> \o t.teardown >>
       \o test_method

\* step.get(key, '')
StepGet(step, key) == IF key \in DOMAIN step THEN step[key] ELSE <<>>

\* element.lower().replace(' ', '_')
JavaVarName(element) == [i \in DOMAIN element |->
                            IF element[i] = " " THEN "_" ELSE LowerChar(element[i])]

\* lines 1024-1079
generate_java_step_code(step, framework) ==
    LET action == Lower(step.action)
        element == StepGet(step, "element")
        value == StepGet(step, "value")
        isClick == Contains(action, <<"c","l","i","c","k">>)
        isInput == \/ Contains(action, <<"i","n","p","u","t">>)
                   \/ Contains(action, <<"t","y","p","e">>)
        isVerify == \/ Contains(action, <<"v","e","r","i","f","y">>)
                    \/ Contains(action, <<"a","s","s","e","r","t">>)
    IN IF framework = F_selenium_java
       THEN IF isClick
            THEN << <<"            // Click on ">> \o element,
                    <<"            WebElement ">> \o JavaVarName(element)
                        \o <<" = driver.findElement(By.xpath(text ">> \o element \o <<"));">>,
                    <<"            ">> \o JavaVarName(element) \o <<".click();">> >>
            ELSE IF isInput
            THEN << <<"            // Input text: ">> \o value,
                    <<"            WebElement inputField = driver.findElement(By.name(input));">>,
                    <<"            inputField.clear();">>,
                    <<"            inputField.sendKeys(">> \o value \o <<");">> >>
            ELSE IF isVerify
            THEN << <<"            // Verify: ">> \o element,
                    <<"            WebElement verifyElement = driver.findElement(By.xpath(text ">>
                        \o element \o <<"));">>,
                    <<"            Assert.assertTrue(verifyElement.isDisplayed(), Element ">>
                        \o element \o <<" should be displayed);">> >>
            ELSE <<>>
       ELSE IF framework = F_appium_java
       THEN IF isClick
            THEN << <<"            // Click on ">> \o element,
                    <<"            driver.findElement(By.xpath(@text ">> \o element
                        \o <<")).click();">> >>
            ELSE IF isInput
            THEN << <<"            // Input text: ">> \o value,
                    <<"            driver.findElement(By.className(EditText)).sendKeys(">>
                        \o value \o <<");">> >>
            ELSE IF isVerify
            THEN << <<"            // Verify: ">> \o element,
                    <<"            WebElement verifyElement = driver.findElement(By.xpath(@text ">>
                        \o element \o <<"));">>,
                    <<"            Assert.assertTrue(verifyElement.isDisplayed(), Element ">>
                        \o element \o <<" should be displayed);">> >>
            ELSE <<>>
       ELSE IF framework = F_rest_assured
       THEN IF Contains(action, <<"g","e","t">>)
            THEN << <<"            // GET request">>,
                    <<"            Response response = given().when().get(/api/endpoint)">>,
                    <<"                .then().statusCode(200).extract().response();">> >>
            ELSE IF Contains(action, <<"p","o","s","t">>)
            THEN << <<"            // POST request">>,
                    <<"            Response response = given().contentType(application/json)">>,
                    <<"                .body(">> \o value \o <<")">>,
                    <<"                .when().post(/api/endpoint)">>,
                    <<"                .then().statusCode(201).extract().response();">> >>
            ELSE <<>>
       ELSE <<>>

RECURSIVE JavaStepsCode(_, _)
\* lines 973-975, 992-994, 1011-1013
JavaStepsCode(steps, framework) ==
    IF steps = <<>> THEN <<>>
    ELSE generate_java_step_code(Head(steps), framework)
         \o JavaStepsCode(Tail(steps), framework)

\* lines 958-1022, for one of the three Java frameworks
generate_java_test_method(scenario, framework) ==
    << <<"    @Test">>,
       <<"    public void testScenario() {">>,
       <<"        try {">>,
       <<"            // Test setup">> >>
    \o (IF framework = F_selenium_java
        THEN << <<"            driver.manage().window().maximize();">>,
                <<"            driver.manage().timeouts().implicitlyWait(Duration.ofSeconds(10));">> >>
        ELSE <<>>)
    \o JavaStepsCode(scenario.steps, framework)
    \o << <<"        } catch (Exception e) {">>,
          <<"            Assert.fail(Test failed: e.getMessage());">>,
          <<"        }">>,
          <<"    }">> >>

\* lines 1081-1161, for one of the three Java frameworks
generate_java_test_file_content(class_name, test_method, framework, package_name) ==
    LET template == framework_templates[framework]
    IN << <<"package ">> \o package_name \o <<";">>,
          template.imports,
          <<"public class ">> \o class_name \o <<" {">> >>
       \o (IF framework = F_selenium_java
           THEN << <<"    private WebDriver driver;">>,
                   <<"    private WebDriverWait wait;">> >>
           ELSE IF framework = F_appium_java
           THEN << <<"    private AppiumDriver driver;">>,
                   <<"    private WebDriverWait wait;">>,
                   <<"        DesiredCapabilities capabilities = new DesiredCapabilities();">> >>
           ELSE <<>>)
       \o << <<"        ">> \o template.setup >>
       \o (IF framework = F_rest_assured THEN <<>>
           ELSE << <<"        wait = ">> \o template.wait \o <<";">> >>)
       \o << <<"        ">> \o template.teardown >>
       \o test_method
       \o << <<"}">> >>

----------------------------------------------------------------------------
(* CodeGenerator: the other files of a project                             *)

\* a path is a sequence of components and a component is a string
OutputDir == <<"generated_tests">>

\* the first component of an absolute path
Root == <<"/">>

\* the components of a name: its pieces between separators
Pieces(name) == SelectSeq(SplitOn(name, "/", <<>>), LAMBDA piece : piece # <<>>)

\* os.path.join(dir, name): an empty name adds only a separator, a name that
\* begins with the separator is absolute and discards dir, and a separator
\* inside the name begins a further component
PathJoin(dir, name) ==
    IF name = <<>> THEN dir
    ELSE IF Head(name) = "/" THEN <<Root>> \o Pieces(name)
    ELSE dir \o Pieces(name)

RECURSIVE PathJoinAll(_, _)
\* os.path.join(dir, *names)
PathJoinAll(dir, names) ==
    IF names = <<>> THEN dir
    ELSE PathJoinAll(PathJoin(dir, Head(names)), Tail(names))

\* line 145
ProjectPath(project_name) == PathJoin(<<OutputDir>>, project_name)

\* datetime.now().strftime("%Y-%m-%d %H:%M:%S"), the clock counted in seconds
Timestamp(clock) == <<"time ">> \o DecimalStr(clock)

\* lines 181-204: requirements.get(framework, requirements['selenium'])
Requirements(framework) ==
    CASE framework = F_appium ->
            << <<"Appium-Python-Client", "==3.1.1">>, <<"pytest", "==7.4.3">>,
               <<"pytest-html", "==4.1.1">>, <<"pytest-xdist", "==3.3.1">> >>
      [] framework = F_requests ->
            << <<"requests", "==2.31.0">>, <<"pytest", "==7.4.3">>,
               <<"pytest-html", "==4.1.1">>, <<"pytest-xdist", "==3.3.1">> >>
      [] OTHER ->
            << <<"selenium", "==4.15.2">>, <<"pytest", "==7.4.3">>, <<"pytest-html", "==4.1.1">>,
               <<"webdriver-manager", "==4.0.1">>, <<"pytest-xdist", "==3.3.1">> >>

\* lines 206-273: the text of config.py
ConfigContent(framework) ==
    << <<"# Otomasyon Projesi Konfigurasyonu">>,
       <<"# Framework: ">> \o Upper(framework),
       <<"class Config:">> >>

\* lines 275-360: the text of the setup script
SetupContent(host) ==
    IF host = "nt" THEN << <<"@echo off">>, <<"pip install -r requirements.txt">> >>
    ELSE << <<"#!/bin/bash">>, <<"pip install -r requirements.txt">> >>

\* lines 319, 360
SetupFile(host) == IF host = "nt" THEN <<"setup.bat">> ELSE <<"setup.sh">>

\* lines 536-602: the text of README.md of a Python project
ReadmeContent(framework, test_count, project_path, clock) ==
    << <<"# Otomasyon Projesi">>,
       <<"- **Framework**: ">> \o Upper(framework),
       <<"- **Test Sayisi**: ">> \o DecimalStr(test_count),
       <<"- **Olusturulma Tarihi**: ">> \o Timestamp(clock),
       Join(project_path) \o <<"/">> >>

\* lines 607-650: the text of run_tests.py; its datetime.now() is in doubled
\* braces, so it is text of the runner and not evaluated by the generator
RunnerContent(framework) ==
    << <<"#!/usr/bin/env python3">>,
       <<"Framework: ">> \o Upper(framework),
       <<"--html=reports/report_{datetime.now()}.html">> >>

\* lines 750-803: the dependencies pom.xml adds for the framework
PomDependencies(framework) ==
    << <<"testng">>, <<"selenium-java">>, <<"webdrivermanager">> >>
    \o (CASE framework = F_appium_java  -> << <<"io.appium:java-client">> >>
          [] framework = F_rest_assured -> << <<"rest-assured">>, <<"json-path">>, <<"xml-path">> >>
          [] framework = F_karate       -> << <<"karate-junit5">>, <<"karate-netty">> >>
          [] OTHER                      -> <<>>)
    \o << <<"slf4j-api">>, <<"logback-classic">> >>

\* lines 699-867: the text of pom.xml
PomContent(project_name, framework) ==
    << <<"<artifactId>">>
          \o [i \in DOMAIN project_name |->
                IF project_name[i] = " " THEN "-" ELSE LowerChar(project_name[i])],
       <<"<name>">> \o project_name >>
    \o PomDependencies(framework)

\* line 679
PackageName(project_name) ==
    <<"c","o","m",".","t","e","s","t","m","a","t","e",".">>
    \o Without(Without(Lower(project_name), "-"), "_")

\* lines 869-882: the text of testng.xml
TestngContent(package_name) ==
    << <<"<suite name=TestMate Suite>">>,
       <<"<class name=">> \o package_name \o <<".*/>">> >>

\* lines 884-918: the text of config.properties
JavaConfigContent(framework) ==
    << <<"# TestMate Studio Configuration">>,
       <<"# Framework: ">> \o framework,
       <<"browser=chrome">> >>

\* lines 1163-1241: the text of README.md of a Maven project;
\* project_structure has no "project_name" key, so the title is the default
JavaReadmeContent(framework, test_count, n_files, clock) ==
    << <<"# TestMate Project">>,
       <<"- **Framework**: ">> \o framework,
       <<"- **Test Sayisi**: ">> \o DecimalStr(test_count),
       <<"- **Olusturulan Dosyalar**: ">> \o DecimalStr(n_files),
       <<"*TestMate Studio tarafindan olusturuldu - ">> \o Timestamp(clock) \o <<"*">> >>

----------------------------------------------------------------------------
(* CodeGenerator.generate_test_project as file-system operations           *)

\* One operation of a call: a directory made (os.makedirs), a file written
\* (open(..., "w"), os.chmod where the code sets the mode, and the append to
\* files_created that follows it), or the exception that ends the call.
MkdirOp(path) ==
    [op |-> "mkdir", path |-> path, content |-> <<>>, exec |-> FALSE,
     listed |-> FALSE, entry |-> <<>>, error |-> "none"]
WriteOp(path, content, exec, entry) ==
    [op |-> "write", path |-> path, content |-> content, exec |-> exec,
     listed |-> TRUE, entry |-> entry, error |-> "none"]
RaiseOp(error) ==
    [op |-> "raise", path |-> <<>>, content |-> <<>>, exec |-> FALSE,
     listed |-> FALSE, entry |-> <<>>, error |-> error]

EndsInRaise(ops) == ops # <<>> /\ ops[Len(ops)].op = "raise"

\* lines 371-392
TestFileOp(project_path, scenario, framework) ==
    LET class_name == generate_class_name(scenario.test_name)
        test_method == generate_test_method(scenario, framework)
        filename == <<"test_">> \o Lower(scenario.test_id) \o <<".py">>
    IN IF TestFileContentRaises(framework) THEN RaiseOp("KeyError")
       ELSE WriteOp(PathJoin(project_path, filename),
                    generate_test_file_content(class_name, test_method, framework),
                    FALSE, <<filename>>)

RECURSIVE TestFileOps(_, _, _)
\* lines 1258-1260: the loop stops at the first scenario that raises
TestFileOps(project_path, scenarios, framework) ==
    IF scenarios = <<>> THEN <<>>
    ELSE LET first == TestFileOp(project_path, Head(scenarios), framework)
         IN IF first.op = "raise" THEN <<first>>
            ELSE <<first>> \o TestFileOps(project_path, Tail(scenarios), framework)

\* lines 1243-1268
PythonOps(project_path, framework, scenarios, host, clock) ==
    LET tests == TestFileOps(project_path, scenarios, framework)
    IN << WriteOp(PathJoin(project_path, <<"requirements.txt">>),
                  Requirements(framework), FALSE, << <<"requirements.txt">> >>),
          WriteOp(PathJoin(project_path, SetupFile(host)),
                  SetupContent(host), host # "nt", << SetupFile(host) >>),
          WriteOp(PathJoin(project_path, <<"config.py">>),
                  ConfigContent(framework), FALSE, << <<"config.py">> >>) >>
       \o tests
       \o (IF EndsInRaise(tests) THEN <<>>
           ELSE << WriteOp(PathJoin(project_path, <<"README.md">>),
                           ReadmeContent(framework, Len(scenarios), project_path, clock),
                           FALSE, << <<"README.md">> >>),
                   WriteOp(PathJoin(project_path, <<"run_tests.py">>),
                           RunnerContent(framework), TRUE, << <<"run_tests.py">> >>) >>)

\* lines 920-939
JavaTestFileOp(test_package_path, scenario, framework, package_name) ==
    IF JavaClassNameRaises(scenario.test_name) THEN RaiseOp("IndexError")
    ELSE LET class_name == generate_java_class_name(scenario.test_name)
             java_framework == get_java_framework(framework)
             test_method == generate_java_test_method(scenario, java_framework)
             file == class_name \o <<".java">>
         IN WriteOp(PathJoin(test_package_path, file),
                    generate_java_test_file_content(class_name, test_method,
                                                    java_framework, package_name),
                    FALSE,
                    << <<"src">>, <<"test">>, <<"java">> >>
                       \o SplitOn(package_name, ".", <<>>) \o <<file>>)

RECURSIVE JavaTestFileOps(_, _, _, _)
\* lines 683-685: the loop stops at the first scenario that raises
JavaTestFileOps(test_package_path, scenarios, framework, package_name) ==
    IF scenarios = <<>> THEN <<>>
    ELSE LET first == JavaTestFileOp(test_package_path, Head(scenarios),
                                     framework, package_name)
         IN IF first.op = "raise" THEN <<first>>
            ELSE <<first>> \o JavaTestFileOps(test_package_path, Tail(scenarios),
                                              framework, package_name)

\* lines 661-697
MavenOps(project_path, project_name, framework, scenarios, clock) ==
    LET src_main_java == PathJoinAll(project_path, << <<"src">>, <<"main">>, <<"java">> >>)
        src_test_java == PathJoinAll(project_path, << <<"src">>, <<"test">>, <<"java">> >>)
        src_main_resources ==
            PathJoinAll(project_path, << <<"src">>, <<"main">>, <<"resources">> >>)
        src_test_resources ==
            PathJoinAll(project_path, << <<"src">>, <<"test">>, <<"resources">> >>)
        package_name == PackageName(project_name)
        test_package_path == PathJoinAll(src_test_java, SplitOn(package_name, ".", <<>>))
        tests == JavaTestFileOps(test_package_path, scenarios, framework, package_name)
    IN << MkdirOp(src_main_java), MkdirOp(src_test_java),
          MkdirOp(src_main_resources), MkdirOp(src_test_resources),
          WriteOp(PathJoin(project_path, <<"pom.xml">>),
                  PomContent(project_name, framework), FALSE, << <<"pom.xml">> >>),
          MkdirOp(test_package_path) >>
       \o tests
       \o (IF EndsInRaise(tests) THEN <<>>
           ELSE << WriteOp(PathJoin(project_path, <<"testng.xml">>),
                           TestngContent(package_name), FALSE, << <<"testng.xml">> >>),
                   WriteOp(PathJoin(project_path, <<"README.md">>),
                           JavaReadmeContent(framework, Len(scenarios),
                                             Len(scenarios) + 2, clock),
                           FALSE, << <<"README.md">> >>),
                   WriteOp(PathJoin(src_test_resources, <<"config.properties">>),
                           JavaConfigContent(framework), FALSE,
                           << <<"src">>, <<"test">>, <<"resources">>,
                              <<"config.properties">> >>) >>)

\* lines 143-164: the operations of one call, in program order; clock is the
\* time at which README.md is written
GenOps(scenarios, project_name, project_type, framework, host, clock) ==
    LET project_path == ProjectPath(project_name)
    IN << MkdirOp(project_path) >>
       \o (IF Lower(project_type) = <<"j","a","v","a">>
           THEN MavenOps(project_path, project_name, framework, scenarios, clock)
           ELSE IF Lower(project_type) = <<"n","o","d","e","j","s">>
           THEN << RaiseOp("AttributeError") >>  \* no _create_nodejs_project exists
           ELSE PythonOps(project_path, framework, scenarios, host, clock))

----------------------------------------------------------------------------
(* The file system and one run of generate_test_project                    *)

NoFiles == [p \in {} |-> [content |-> <<>>, exec |-> FALSE]]

\* a path and the directories above it
Ancestors(path) == { SubSeq(path, 1, k) : k \in 1..Len(path) } \ { <<Root>> }
Parent(path) == SubSeq(path, 1, Len(path) - 1)
IsBelow(path, dir) == Len(path) > Len(dir) /\ SubSeq(path, 1, Len(dir)) = dir

\* open(path, "w").write(content), and os.chmod(path, 0o755) when exec
PutFile(fs, path, content, exec) ==
    [p \in DOMAIN fs \cup {path} |->
        IF p = path THEN [content |-> content, exec |-> exec] ELSE fs[p]]

\* the state of a call when it starts (lines 149-155)
StartRun(fs, ds) ==
    [files |-> fs, dirs |-> ds, files_created |-> <<>>, written |-> NoFiles,
     made |-> {}, status |-> "running", error |-> "none"]

\* A variant that opens files for appending: what a file held before the
\* call stays in front of what the call writes.
ApplyOpAppending(run, op) ==
    LET before == IF op.path \in DOMAIN run.files
                  THEN run.files[op.path].content ELSE <<>>
    IN CASE op.op = "mkdir" ->
               [run EXCEPT !.dirs = @ \cup Ancestors(op.path),
                           !.made = @ \cup (Ancestors(op.path) \ run.dirs)]
         [] op.op = "write" ->
               IF Parent(op.path) \notin run.dirs
               THEN [run EXCEPT !.status = "raised", !.error = "FileNotFoundError"]
               ELSE [run EXCEPT
                       !.files = PutFile(@, op.path, before \o op.content, op.exec),
                       !.written = PutFile(@, op.path, before \o op.content, op.exec),
                       !.files_created = Append(@, op.entry)]
         [] OTHER ->
               [run EXCEPT !.status = "raised", !.error = op.error]

\* the effect of one operation on the call and on the disk
ApplyOp(run, op) ==
    CASE op.op = "mkdir" ->
            [run EXCEPT !.dirs = @ \cup Ancestors(op.path),
                        !.made = @ \cup (Ancestors(op.path) \ run.dirs)]
      [] op.op = "write" ->
            IF Parent(op.path) \notin run.dirs
            THEN [run EXCEPT !.status = "raised", !.error = "FileNotFoundError"]
            ELSE [run EXCEPT
                    !.files = PutFile(@, op.path, op.content, op.exec),
                    !.written = PutFile(@, op.path, op.content, op.exec),
                    !.files_created = Append(@, op.entry)]
      [] OTHER ->
            [run EXCEPT !.status = "raised", !.error = op.error]

RECURSIVE RunOps(_, _)
\* the operations in program order, up to the first that raises
RunOps(run, ops) ==
    IF run.status = "raised" THEN run
    ELSE IF ops = <<>> THEN [run EXCEPT !.status = "returned"]
    ELSE RunOps(ApplyOp(run, Head(ops)), Tail(ops))

\* lines 143-164: a whole call, on the disk fs, ds
generate_test_project(fs, ds, scenarios, project_name, project_type, framework, h, clock) ==
    RunOps(StartRun(fs, ds),
           GenOps(scenarios, project_name, project_type, framework, h, clock))

----------------------------------------------------------------------------
(* The quota (database/models.py, auth/middleware.py)                      *)

\* the users the database holds: the admin of lines 186-240 and a user
\* registered with the trial license of lines 280-325
Users == { "admin", "trial" }

LicenseType(user) == IF user = "admin" THEN "enterprise" ELSE "trial"

\* usage_limits['excel_processing'] of a trial license
ExcelProcessingLimit == 3

\* current_usage['excel_processing'] of a new license
NoUsage == [u \in Users |-> 0]

\* middleware.check_feature_access and DatabaseManager.check_feature_access
\* for an active, unexpired license
check_feature_access(user, usage) ==
    \/ user = "admin"
    \/ ~(LicenseType(user) = "trial" /\ usage[user] >= ExcelProcessingLimit)

\* DatabaseManager.increment_usage
increment_usage(user, usage) ==
    IF LicenseType(user) = "trial"
    THEN (IF usage[user] > 0 THEN [usage EXCEPT ![user] = @ - 1] ELSE usage)
    ELSE [usage EXCEPT ![user] = @ + 1]

----------------------------------------------------------------------------
(* app/main.py: generate_project and download_project                      *)

\* the record kept of one generate_project request
CallRecord(user, project_name, project_type, framework, scenarios, clock, http, run) ==
    [ user          |-> user,
      project_name  |-> project_name,
      project_type  |-> project_type,
      framework     |-> framework,
      scenarios     |-> scenarios,
      clock         |-> clock,
      http          |-> http,
      status        |-> run.status,
      error         |-> run.error,
      files_created |-> run.files_created,
      written       |-> run.written,
      made          |-> run.made ]

\* a run that never started: the request was refused before line 598
NoRun == [StartRun(NoFiles, {}) EXCEPT !.status = "not run"]

\* lines 589-621
GenerateProject(user, project_name, project_type, framework, scenarios) ==
    IF ~check_feature_access(user, current_usage)
    THEN /\ calls' = Append(calls, CallRecord(user, project_name, project_type,
                                              framework, scenarios, now, 403, NoRun))
         /\ UNCHANGED <<files, dirs, current_usage>>
    ELSE LET run == generate_test_project(files, dirs, scenarios, project_name,
                                          project_type, framework, os_name, now)
         IN /\ files' = run.files
            /\ dirs' = run.dirs
            /\ current_usage' =
                 IF run.status = "returned" /\ user # "admin"
                 THEN increment_usage(user, current_usage)
                 ELSE current_usage
            /\ calls' = Append(calls, CallRecord(user, project_name, project_type,
                                 framework, scenarios, now,
                                 IF run.status = "returned" THEN 200 ELSE 500, run))

RECURSIVE RelPathName(_)
\* os.path.relpath(file_path, project_path) as text: the components of the
\* path below the project, with the separator between them
RelPathName(path) ==
    IF Len(path) = 1 THEN path[1]
    ELSE path[1] \o <<"/">> \o RelPathName(Tail(path))

\* os.stat(file_path).st_mode: a regular file, rw-r--r-- as open() leaves it
\* or rwxr-xr-x after os.chmod(path, 0o755)
StMode(file) == 32768 + (IF file.exec THEN 493 ELSE 420)

\* ZipInfo.from_file and ZipFile.write: the name, the bytes of the file, and
\* external_attr = (st_mode & 0xFFFF) << 16, a 32-bit word kept as its upper
\* and its lower 16 bits
ZipEntry(arcname, file) ==
    [ filename      |-> arcname,
      external_attr |-> [upper |-> StMode(file) % 65536, lower |-> 0],
      data          |-> file.content ]

\* A variant that stores the bytes under the name only, as
\* zipf.writestr(arcname, data) does: the mode of the file is not recorded.
ArchiveOfData(fs, project_path) ==
    LET inside == { p \in DOMAIN fs : IsBelow(p, project_path) }
        Rel(p) == RelPathName(SubSeq(p, Len(project_path) + 1, Len(p)))
    IN [a \in { Rel(p) : p \in inside } |->
          LET p == CHOOSE q \in inside : Rel(q) = a
          IN [ZipEntry(a, fs[p]) EXCEPT !.external_attr.upper = 0]]

\* lines 674-680: the entries of the archive, by name
Archive(fs, project_path) ==
    LET inside == { p \in DOMAIN fs : IsBelow(p, project_path) }
        Rel(p) == RelPathName(SubSeq(p, Len(project_path) + 1, Len(p)))
    IN [a \in { Rel(p) : p \in inside } |->
          LET p == CHOOSE q \in inside : Rel(q) = a
          IN ZipEntry(a, fs[p])]

NoEntries == [a \in {} |-> ZipEntry(<<>>, [content |-> <<>>, exec |-> FALSE])]

NoDownload == [project_name |-> <<>>, http |-> 0, entries |-> NoEntries, after |-> 0]

\* lines 661-689; the HTTPException of line 668 is raised inside the try and
\* caught by the except Exception of line 688, which answers 500
DownloadProject(project_name) ==
    LET project_path == ProjectPath(project_name)
        zip_filename == project_name \o <<".zip">>
    IN IF project_path \notin dirs
       THEN /\ lastDownload' = [project_name |-> project_name, http |-> 500,
                                entries |-> NoEntries, after |-> Len(calls)]
            /\ UNCHANGED <<exports, dirs>>
       ELSE LET archive == Archive(files, project_path)
            IN /\ exports' = [z \in DOMAIN exports \cup {zip_filename} |->
                                IF z = zip_filename THEN archive ELSE exports[z]]
               /\ dirs' = dirs \cup { << <<"exports">> >> }
               /\ lastDownload' = [project_name |-> project_name, http |-> 200,
                                   entries |-> archive, after |-> Len(calls)]

----------------------------------------------------------------------------
(* ExcelProcessor.validate_test_scenarios                                  *)

\* the action names the validator compares with, as written in the sheet
Raw_Tikla == <<"T", "dotless_i", "k", "l", "a">>
Raw_Yaz   == <<"Y", "a", "z">>

\* lines 242-251: the warnings of one step
StepWarnings(step) ==
    LET prefix == <<"Adim ">> \o DecimalStr(step.step_number) \o <<": ">>
    IN (IF step.description = <<>>
        THEN << prefix \o <<"Aciklama eksik">> >> ELSE <<>>)
       \o (IF step.action \in { Raw_Tikla, Raw_Yaz } /\ step.locator_value = <<>>
           THEN << prefix \o <<"Eylem icin locator eksik">> >> ELSE <<>>)
       \o (IF step.action = Raw_Yaz /\ step.test_data = <<>>
           THEN << prefix \o <<"Yazma eylemi icin test verisi eksik">> >> ELSE <<>>)

\* lines 230-238: the errors of one scenario
ScenarioErrors(scenario) ==
    (IF scenario.test_id = <<>> THEN << <<"Test ID eksik">> >> ELSE <<>>)
    \o (IF scenario.test_name = <<>> THEN << <<"Test adi eksik">> >> ELSE <<>>)
    \o (IF scenario.steps = <<>> THEN << <<"Test adimlari eksik">> >> ELSE <<>>)

RECURSIVE ScenarioWarnings(_)
\* lines 241-251: the warnings of the steps of one scenario, in step order
ScenarioWarnings(steps) ==
    IF steps = <<>> THEN <<>>
    ELSE StepWarnings(Head(steps)) \o ScenarioWarnings(Tail(steps))

\* lines 254 and 259: every message behind the id of its scenario
Labelled(scenario, messages) ==
    LET id == IF scenario.test_id = <<>> THEN <<"Bilinmeyen">> ELSE scenario.test_id
    IN [i \in DOMAIN messages |-> id \o <<": ">> \o messages[i]]

NoValidation ==
    [ status |-> "not run", valid |-> TRUE, errors |-> <<>>, warnings |-> <<>>,
      total_tests |-> 0, total_steps |-> 0,
      tests_with_errors |-> 0, tests_with_warnings |-> 0 ]

\* A variant that is strict about warnings: a scenario with a warning makes
\* the list invalid as one with an error does.
ValidateScenarioStrict(result, scenario) ==
    LET test_errors == ScenarioErrors(scenario)
        test_warnings == ScenarioWarnings(scenario.steps)
    IN [result EXCEPT
          !.total_steps = @ + Len(scenario.steps),
          !.errors = @ \o Labelled(scenario, test_errors),
          !.tests_with_errors = IF test_errors # <<>> THEN @ + 1 ELSE @,
          !.valid = IF test_errors # <<>> \/ test_warnings # <<>> THEN FALSE ELSE @,
          !.warnings = @ \o Labelled(scenario, test_warnings),
          !.tests_with_warnings = IF test_warnings # <<>> THEN @ + 1 ELSE @]

\* lines 227-260: the body of the loop, for one scenario
ValidateScenario(result, scenario) ==
    LET test_errors == ScenarioErrors(scenario)
        test_warnings == ScenarioWarnings(scenario.steps)
    IN [result EXCEPT
          !.total_steps = @ + Len(scenario.steps),
          !.errors = @ \o Labelled(scenario, test_errors),
          !.tests_with_errors = IF test_errors # <<>> THEN @ + 1 ELSE @,
          !.valid = IF test_errors # <<>> THEN FALSE ELSE @,
          !.warnings = @ \o Labelled(scenario, test_warnings),
          !.tests_with_warnings = IF test_warnings # <<>> THEN @ + 1 ELSE @]

RECURSIVE ValidateFrom(_, _)
\* lines 226-260: the loop over the scenarios
ValidateFrom(result, scenarios) ==
    IF scenarios = <<>> THEN result
    ELSE ValidateFrom(ValidateScenario(result, Head(scenarios)), Tail(scenarios))

\* lines 212-262
validate_test_scenarios(scenarios) ==
    ValidateFrom([NoValidation EXCEPT !.status = "returned",
                                      !.total_tests = Len(scenarios)],
                 scenarios)

----------------------------------------------------------------------------
(* The sheets tried                                                        *)

MaxRows == 3
MaxStepNo == 2

TC1 == <<"T","C","1">>
TC1_step_1 == <<"T","C","1","_","s","t","e","p","_","1">>

RowIds == { TC1, TC1_step_1, <<>> }
RowNames == { <<"L","o","g","i","n">>, <<"P","a","y">> }
StepCells == { NumberCell(n) : n \in 1..MaxStepNo } \cup { EmptyCell }

RowOf(id, name, stepNo) ==
    [ test_id          |-> id,
      test_name        |-> name,
      test_description |-> name,
      priority         |-> <<"Orta">>,
      test_type        |-> <<"W","e","b">>,
      step_no          |-> stepNo,
      description      |-> <<"Email gir">>,
      locator_type     |-> <<"i","d">>,
      locator_value    |-> <<"email-input">>,
      action           |-> <<"Y","a","z">>,
      test_data        |-> <<"invalid@email">>,
      expected_result  |-> <<>> ]

Rows == { RowOf(id, name, n) : id \in RowIds, name \in RowNames, n \in StepCells }

Sheets == UNION { [1..n -> Rows] : n \in 0..MaxRows }

\* the headers tried: each of the two columns present or not
Headers == SUBSET AllColumns

----------------------------------------------------------------------------
(* The steps and frameworks tried                                          *)

ActionTokens ==
    { Tok_ac, <<"A", "c_cedilla">>, Tok_tikla, <<"T", "I", "K", "L", "A">>,
      Raw_Tikla, Raw_Yaz, Tok_yaz, Tok_bekle, Tok_sec, <<"c","l","i","c","k">>,
      <<"l","e","v","i","t","a","t","e">>, <<>> }
LocatorTypes == { Loc_id, <<"X","P","A","T","H">>, <<"t","a","g">>, <<>> }
LocatorValues == { <<>>, <<"login-btn">> }
TestDataValues == { <<>>, <<"https://example.com">> }
ExpectedResults == { <<>>, <<"Sayfa yuklendi">> }

StepOf(action, ltype, lvalue, data, expected) ==
    [ step_number     |-> 1,
      description     |-> <<"adim">>,
      locator_type    |-> ltype,
      locator_value   |-> lvalue,
      action          |-> action,
      test_data       |-> data,
      expected_result |-> expected ]

Steps ==
    { StepOf(a, lt, lv, d, e) :
        a \in ActionTokens, lt \in LocatorTypes, lv \in LocatorValues,
        d \in TestDataValues, e \in ExpectedResults }

\* a framework id that is no key of framework_templates
UnknownFramework == <<"S","e","l","e","n","i","u","m">>

----------------------------------------------------------------------------
(* The requests tried                                                      *)

MaxCalls == 2
MaxRequests == 4
MaxClock == 1
MaxScenarios == 2

tc1 == <<"t","c","1">>
TC2 == <<"T","C","2">>
Login == <<"L","o","g","i","n">>
Log_in == <<"L","o","g"," ","i","n">>
Shop == <<"s","h","o","p">>
Bank == <<"b","a","n","k">>
T_python == <<"p","y","t","h","o","n">>
T_Java == <<"J","a","v","a">>
T_nodejs == <<"n","o","d","e","j","s">>

OpenStep == StepOf(Tok_ac, <<>>, <<>>, <<"https://example.com">>, <<"Sayfa yuklendi">>)

ScenarioOf(id, name, steps) ==
    [ test_id          |-> id,
      test_name        |-> name,
      test_description |-> name,
      priority         |-> <<"Orta">>,
      test_type        |-> <<"W","e","b">>,
      steps            |-> steps ]

\* one request after another: few inputs, several requests
ScenarioLists ==
    { <<ScenarioOf(TC1, Login, <<OpenStep>>)>>,
      <<ScenarioOf(TC2, <<>>, <<>>)>> }
ProjectNames == { Shop, Bank }
ProjectTypes == { T_python, T_Java }

\* one request on an empty disk: many inputs
Scenarios ==
    { ScenarioOf(id, name, steps) :
        id \in { TC1, tc1, TC2 },
        name \in { Login, Log_in, <<>> },
        steps \in { <<>>, <<OpenStep>> } }
\* the scenario lists validated: ids, names and step lists present or not,
\* steps with and without what the validator warns about
ClickNoLocator == StepOf(Raw_Tikla, Loc_id, <<>>, <<>>, <<>>)
ValidatedScenarios ==
    { ScenarioOf(id, name, steps) :
        id \in { TC1, <<>> },
        name \in { Login, <<>> },
        steps \in { <<>>, <<OpenStep>>, <<OpenStep, ClickNoLocator>> } }
ValidatedLists == UNION { [1..n -> ValidatedScenarios] : n \in 0..MaxScenarios }

\* project names, scenario ids and scenario names with separators and dots
DotDot == <<".", ".">>
HostileProjectNames ==
    { Shop, DotDot, <<"/", "t", "m", "p">>, <<"a", ".", "/", "b">> }
HostileScenarios ==
    { ScenarioOf(id, name, <<OpenStep>>) :
        id \in { TC1, TC2, <<".", ".", "/", "x">> },
        name \in { Login, <<".", ".", "/", "x">> } }
HostileScenarioLists == UNION { [1..n -> HostileScenarios] : n \in 0..MaxScenarios }

WideScenarioLists == UNION { [1..n -> Scenarios] : n \in 0..MaxScenarios }
WideProjectTypes == { T_python, T_Java, T_nodejs }
WideFrameworks == { F_selenium, F_appium, F_rest_assured, UnknownFramework }

----------------------------------------------------------------------------
(* Specifications                                                          *)

ReaderIdle == columns = AllColumns /\ rows = <<>> /\ readResult = NotRun

NoExports == [z \in {} |-> NoEntries]

\* a server that has served nothing, on an empty working directory
ServerIdle ==
    /\ files = NoFiles
    /\ dirs = {}
    /\ exports = NoExports
    /\ os_name = "posix"
    /\ now = 0
    /\ current_usage = NoUsage
    /\ calls = <<>>
    /\ lastDownload = NoDownload
    /\ procs = <<>>

LowerNotRun == [status |-> "not run", lines |-> <<>>]

LowerIdle ==
    /\ lowStep = StepOf(<<>>, <<>>, <<>>, <<>>, <<>>)
    /\ lowFramework = F_selenium
    /\ lowResult = LowerNotRun
    /\ lowJavaResult = LowerNotRun
    /\ validation = NoValidation
    /\ valScenarios = <<>>

\* read_test_scenarios on one sheet
InitRead ==
    /\ \E header \in Headers, sheet \in Sheets :
         /\ columns = header
         /\ rows = DataFrame(sheet, header)
    /\ readResult = NotRun
    /\ LowerIdle
    /\ ServerIdle

ReadTestScenarios ==
    /\ readResult.status = "not run"
    /\ readResult' = read_test_scenarios(rows)
    /\ UNCHANGED <<columns, rows, lowerVars, serverVars>>

NextRead == ReadTestScenarios

SpecRead == InitRead /\ [][NextRead]_vars

\* _generate_step_code on one step
InitLower ==
    /\ ReaderIdle
    /\ lowStep \in Steps
    /\ lowFramework \in FrameworkIds \cup { UnknownFramework }
    /\ lowResult = LowerNotRun
    /\ lowJavaResult = LowerNotRun
    /\ validation = NoValidation
    /\ valScenarios = <<>>
    /\ ServerIdle

GenerateStepCode ==
    /\ lowResult.status = "not run"
    /\ lowResult' = [status |-> "returned",
                     lines |-> generate_step_code(lowStep, lowFramework)]
    /\ UNCHANGED <<lowStep, lowFramework, lowJavaResult, validation, valScenarios,
                   readerVars, serverVars>>

\* validate_test_scenarios on a scenario that holds the step
ValidateStep ==
    /\ validation.status = "not run"
    /\ validation' = validate_test_scenarios(
                        <<ScenarioOf(TC1, <<"L","o","g","i","n">>, <<lowStep>>)>>)
    /\ UNCHANGED <<lowStep, lowFramework, lowResult, lowJavaResult, valScenarios,
                   readerVars, serverVars>>

\* _generate_java_step_code on the same step, under the Java framework that
\* _generate_java_test_file takes for the framework (line 926)
GenerateJavaStepCode ==
    /\ lowJavaResult.status = "not run"
    /\ lowJavaResult' =
         [status |-> "returned",
          lines |-> generate_java_step_code(lowStep, get_java_framework(lowFramework))]
    /\ UNCHANGED <<lowStep, lowFramework, lowResult, validation, valScenarios,
                   readerVars, serverVars>>

NextLower == GenerateStepCode \/ ValidateStep \/ GenerateJavaStepCode

SpecLower == InitLower /\ [][NextLower]_vars

\* validate_test_scenarios on one scenario list
InitValidate ==
    /\ ReaderIdle
    /\ lowStep = StepOf(<<>>, <<>>, <<>>, <<>>, <<>>)
    /\ lowFramework = F_selenium
    /\ lowResult = LowerNotRun
    /\ lowJavaResult = LowerNotRun
    /\ validation = NoValidation
    /\ valScenarios \in ValidatedLists
    /\ ServerIdle

ValidateTestScenarios ==
    /\ validation.status = "not run"
    /\ validation' = validate_test_scenarios(valScenarios)
    /\ UNCHANGED <<valScenarios, lowStep, lowFramework, lowResult, lowJavaResult,
                   readerVars, serverVars>>

NextValidate == ValidateTestScenarios

SpecValidate == InitValidate /\ [][NextValidate]_vars

\* one generate_project request on an empty working directory
InitOnce ==
    /\ ReaderIdle
    /\ LowerIdle
    /\ files = NoFiles
    /\ dirs = {}
    /\ exports = NoExports
    /\ os_name \in { "posix", "nt" }
    /\ now = 0
    /\ current_usage = NoUsage
    /\ calls = <<>>
    /\ lastDownload = NoDownload
    /\ procs = <<>>

GenerateOnce ==
    /\ calls = <<>>
    /\ \E user \in Users, project_type \in WideProjectTypes,
          framework \in WideFrameworks, scenarios \in WideScenarioLists :
            GenerateProject(user, Shop, project_type, framework, scenarios)
    /\ UNCHANGED <<exports, os_name, now, lastDownload, procs, readerVars, lowerVars>>

NextOnce == GenerateOnce

SpecOnce == InitOnce /\ [][NextOnce]_vars

\* one generate_project request with names that hold separators and dots
InitPaths == InitOnce

GenerateHostile ==
    /\ calls = <<>>
    /\ \E project_name \in HostileProjectNames, project_type \in ProjectTypes,
          scenarios \in HostileScenarioLists :
            GenerateProject("admin", project_name, project_type, F_selenium, scenarios)
    /\ UNCHANGED <<exports, os_name, now, lastDownload, procs, readerVars, lowerVars>>

NextPaths == GenerateHostile

SpecPaths == InitPaths /\ [][NextPaths]_vars

\* the server: requests one after another, while time passes
Init ==
    /\ ReaderIdle
    /\ LowerIdle
    /\ ServerIdle

Generate ==
    /\ Len(calls) < MaxCalls
    /\ \E project_name \in ProjectNames, project_type \in ProjectTypes,
          scenarios \in ScenarioLists :
            GenerateProject("trial", project_name, project_type, F_selenium, scenarios)
    /\ UNCHANGED <<exports, os_name, now, lastDownload, procs, readerVars, lowerVars>>

Download ==
    /\ \E project_name \in ProjectNames : DownloadProject(project_name)
    /\ UNCHANGED <<files, os_name, now, current_usage, calls, procs, readerVars,
                   lowerVars>>

Tick ==
    /\ now < MaxClock
    /\ now' = now + 1
    /\ UNCHANGED <<files, dirs, exports, os_name, current_usage, calls, lastDownload,
                   procs, readerVars, lowerVars>>

Next == Generate \/ Download \/ Tick

Spec == Init /\ [][Next]_vars

\* the requests of one trial user, more of them than the license allows
InitQuota == Init

GenerateAsTrial ==
    /\ Len(calls) < MaxRequests
    /\ \E project_name \in ProjectNames, project_type \in ProjectTypes,
          scenarios \in ScenarioLists :
            GenerateProject("trial", project_name, project_type, F_selenium, scenarios)
    /\ UNCHANGED <<exports, os_name, now, lastDownload, procs, readerVars, lowerVars>>

NextQuota == GenerateAsTrial

SpecQuota == InitQuota /\ [][NextQuota]_vars

\* two calls of generate_test_project side by side, one operation at a time
StartProc(scenarios, project_name, project_type, framework) ==
    [ scenarios     |-> scenarios,
      project_name  |-> project_name,
      project_type  |-> project_type,
      framework     |-> framework,
      pc            |-> 1,
      files_created |-> <<>>,
      written       |-> NoFiles,
      made          |-> {},
      status        |-> "running",
      error         |-> "none" ]

Starts ==
    { StartProc(scenarios, project_name, project_type, F_selenium) :
        scenarios \in ScenarioLists, project_name \in ProjectNames,
        project_type \in ProjectTypes }

InitConc ==
    /\ ReaderIdle
    /\ LowerIdle
    /\ files = NoFiles
    /\ dirs = {}
    /\ exports = NoExports
    /\ os_name = "posix"
    /\ now = 0
    /\ current_usage = NoUsage
    /\ calls = <<>>
    /\ lastDownload = NoDownload
    /\ procs \in [1..2 -> Starts]

\* the next operation of call p, or its return when none is left
RunOp(p) ==
    LET me == procs[p]
        ops == GenOps(me.scenarios, me.project_name, me.project_type,
                      me.framework, os_name, now)
    IN /\ me.status = "running"
       /\ IF me.pc > Len(ops)
          THEN /\ procs' = [procs EXCEPT ![p].status = "returned"]
               /\ UNCHANGED <<files, dirs>>
          ELSE LET run == ApplyOp([StartRun(files, dirs) EXCEPT
                                     !.files_created = me.files_created,
                                     !.written = me.written,
                                     !.made = me.made],
                                  ops[me.pc])
               IN /\ files' = run.files
                  /\ dirs' = run.dirs
                  /\ procs' = [procs EXCEPT ![p] =
                        [me EXCEPT !.pc = @ + 1,
                                   !.files_created = run.files_created,
                                   !.written = run.written,
                                   !.made = run.made,
                                   !.status = run.status,
                                   !.error = run.error]]
       /\ UNCHANGED <<exports, os_name, now, current_usage, calls, lastDownload,
                      readerVars, lowerVars>>

NextConc == \E p \in DOMAIN procs : RunOp(p)

SpecConc == InitConc /\ [][NextConc]_vars

\* two download_project requests side by side. The handler runs on the event
\* loop without awaiting, so no two handlers interleave; the FileResponse it
\* returns reads the archive file later, from a worker thread, at any moment.
StartDownload(project_name) ==
    [ project_name |-> project_name,
      pc           |-> "new",
      http         |-> 0,
      received     |-> NoEntries ]

InitDownloads ==
    /\ ReaderIdle
    /\ LowerIdle
    /\ \E host \in { "posix", "nt" }, project_type \in ProjectTypes,
          scenarios \in ScenarioLists :
         LET run == generate_test_project(NoFiles, {}, scenarios, Shop, project_type,
                                          F_selenium, host, 0)
         IN /\ os_name = host
            /\ files = run.files
            /\ dirs = run.dirs
            /\ calls = << CallRecord("admin", Shop, project_type, F_selenium,
                                     scenarios, 0,
                                     IF run.status = "returned" THEN 200 ELSE 500,
                                     run) >>
    /\ exports = NoExports
    /\ now = 0
    /\ current_usage = NoUsage
    /\ lastDownload = NoDownload
    /\ procs \in [1..2 -> { StartDownload(project_name) : project_name \in ProjectNames }]

\* lines 665-675: the check of the project path, os.makedirs("exports") and
\* zipfile.ZipFile(zip_path, 'w'), which truncates the archive file
BeginDownload(p) ==
    LET me == procs[p]
        zip_filename == me.project_name \o <<".zip">>
    IN /\ me.pc = "new"
       /\ \A q \in DOMAIN procs : procs[q].pc # "writing"
       /\ IF ProjectPath(me.project_name) \notin dirs
          THEN /\ procs' = [procs EXCEPT ![p].pc = "done", ![p].http = 500]
               /\ UNCHANGED <<exports, dirs>>
          ELSE /\ procs' = [procs EXCEPT ![p].pc = "writing"]
               /\ exports' = [z \in DOMAIN exports \cup {zip_filename} |->
                                 IF z = zip_filename THEN NoEntries ELSE exports[z]]
               /\ dirs' = dirs \cup { << <<"exports">> >> }
       /\ UNCHANGED <<files, os_name, now, current_usage, calls, lastDownload,
                      readerVars, lowerVars>>

\* lines 676-680: zipf.write of one file of the project
WriteEntry(p) ==
    LET me == procs[p]
        zip_filename == me.project_name \o <<".zip">>
        archive == Archive(files, ProjectPath(me.project_name))
    IN /\ me.pc = "writing"
       /\ \E a \in DOMAIN archive \ DOMAIN exports[zip_filename] :
            exports' = [exports EXCEPT ![zip_filename] =
                          [b \in DOMAIN @ \cup {a} |-> archive[b]]]
       /\ UNCHANGED <<files, dirs, os_name, now, current_usage, calls, lastDownload,
                      procs, readerVars, lowerVars>>

\* lines 675 and 682-686: the archive is closed and the FileResponse returned
ReturnResponse(p) ==
    LET me == procs[p]
        zip_filename == me.project_name \o <<".zip">>
    IN /\ me.pc = "writing"
       /\ DOMAIN exports[zip_filename]
            = DOMAIN Archive(files, ProjectPath(me.project_name))
       /\ procs' = [procs EXCEPT ![p].pc = "returned", ![p].http = 200]
       /\ UNCHANGED <<files, dirs, exports, os_name, now, current_usage, calls,
                      lastDownload, readerVars, lowerVars>>

\* the FileResponse of line 682 sends what the archive file holds when it is
\* read
Deliver(p) ==
    LET me == procs[p]
        zip_filename == me.project_name \o <<".zip">>
    IN /\ me.pc = "returned"
       /\ procs' = [procs EXCEPT ![p].pc = "done",
                                 ![p].received = exports[zip_filename]]
       /\ UNCHANGED <<files, dirs, exports, os_name, now, current_usage, calls,
                      lastDownload, readerVars, lowerVars>>

NextDownloads ==
    \/ \E p \in DOMAIN procs : BeginDownload(p)
    \/ \E p \in DOMAIN procs : WriteEntry(p)
    \/ \E p \in DOMAIN procs : ReturnResponse(p)
    \/ \E p \in DOMAIN procs : Deliver(p)

SpecDownloads == InitDownloads /\ [][NextDownloads]_vars

----------------------------------------------------------------------------
(* Claims about read_test_scenarios (checked under SpecRead)               *)

Returned == readResult.status = "returned"

\* the rows the loop does not skip, in source order
KeptRows(sheet) == SelectSeq(sheet, LAMBDA r : r.test_id # <<>>)

\* the indices at which a contiguous cluster of one Test ID begins
ClusterStarts(kept) ==
    { i \in DOMAIN kept : i = 1 \/ kept[i].test_id # kept[i - 1].test_id }

\* the last index of the cluster that begins at s
ClusterEnd(kept, s) ==
    CHOOSE e \in s..Len(kept) :
        /\ \A i \in s..e : kept[i].test_id = kept[s].test_id
        /\ e = Len(kept) \/ kept[e + 1].test_id # kept[s].test_id

RECURSIVE InsertByStep(_, _)
InsertByStep(sorted, step) ==
    IF sorted = <<>> THEN <<step>>
    ELSE IF step.step_number < Head(sorted).step_number
         THEN <<step>> \o sorted
         ELSE <<Head(sorted)>> \o InsertByStep(Tail(sorted), step)

RECURSIVE SortByStep(_)
\* steps sorted by step number, ties in source order
SortByStep(steps) ==
    IF steps = <<>> THEN <<>>
    ELSE InsertByStep(SortByStep(SubSeq(steps, 1, Len(steps) - 1)), steps[Len(steps)])

\* the k-th smallest element of a set of indices
Nth(S, k) == CHOOSE i \in S : Cardinality({ j \in S : j <= i }) = k

\* C1: for every sheet, the scenarios read_test_scenarios returns have
\* pairwise distinct test_id values.
C1_DistinctTestIds ==
    Returned =>
        \A i, j \in DOMAIN readResult.scenarios :
            readResult.scenarios[i].test_id = readResult.scenarios[j].test_id => i = j

----------------------------------------------------------------------------
(* Claims about _generate_step_code (checked under SpecLower)              *)

\* C3: lowering is total: for every framework of the registry and every
\* step, _generate_step_code returns a non-empty list of lines.
C3_LoweringNonEmpty ==
    (lowResult.status = "returned" /\ lowFramework \in FrameworkIds)
        => lowResult.lines # <<>>

----------------------------------------------------------------------------
(* Claims about generate_test_project and the requests                     *)

Ran(call) == call.status # "not run"

SameInputs(c, d) ==
    /\ c.scenarios = d.scenarios
    /\ c.framework = d.framework
    /\ c.project_type = d.project_type
    /\ c.project_name = d.project_name

\* two requests with identical inputs, the first served before the second
Repeats ==
    { pair \in (DOMAIN calls) \X (DOMAIN calls) :
        /\ pair[1] < pair[2]
        /\ Ran(calls[pair[1]]) /\ Ran(calls[pair[2]])
        /\ SameInputs(calls[pair[1]], calls[pair[2]]) }

RECURSIVE DropDigits(_)
DropDigits(line) ==
    IF line # <<>> /\ IsDigit(Head(line)) THEN DropDigits(Tail(line)) ELSE line

RECURSIVE WithoutStamp(_)
\* a line without the text of datetime.now() in it
WithoutStamp(line) ==
    IF line = <<>> THEN <<>>
    ELSE IF Head(line) = "time " THEN WithoutStamp(DropDigits(Tail(line)))
    ELSE <<Head(line)>> \o WithoutStamp(Tail(line))

Unstamped(content) == [i \in DOMAIN content |-> WithoutStamp(content[i])]

IsReadme(path) == path[Len(path)] = <<"README.md">>

DistinctTestIds(scenarios) ==
    \A i, j \in DOMAIN scenarios :
        i # j => scenarios[i].test_id # scenarios[j].test_id

\* C5: for scenarios with pairwise distinct test_id and every project type,
\* the paths in files_created are pairwise distinct and every listed file is
\* a file of its own on disk: none was overwritten by a later one.
C5_OneFilePerScenario ==
    \A k \in DOMAIN calls :
        (calls[k].status = "returned" /\ DistinctTestIds(calls[k].scenarios))
            => /\ \A i, j \in DOMAIN calls[k].files_created :
                    i # j => calls[k].files_created[i] # calls[k].files_created[j]
               /\ Cardinality(DOMAIN calls[k].written) = Len(calls[k].files_created)

\* the last request for project_name among the first n requests, 0 if none
LatestFor(project_name, n) ==
    LET mine == { k \in 1..n : calls[k].project_name = project_name /\ Ran(calls[k]) }
    IN IF mine = {} THEN 0 ELSE CHOOSE k \in mine : \A m \in mine : m <= k

\* C6: after any sequence of generate_test_project calls, the entries of the
\* archive download_project(P) answers with are the files_created of the most
\* recent call for P.
C6_ArchiveIsLatestCall ==
    lastDownload.http = 200
        => LET k == LatestFor(lastDownload.project_name, lastDownload.after)
           IN /\ k # 0
              /\ DOMAIN lastDownload.entries =
                    { RelPathName(entry) : entry \in Range(calls[k].files_created) }

\* C7: when generate_test_project raises part-way through, no file and no
\* directory the call created is left under the project root.
C7_FailureLeavesNothing ==
    \A k \in DOMAIN calls :
        calls[k].status = "raised"
            => LET project_path == ProjectPath(calls[k].project_name)
               IN /\ \A path \in DOMAIN calls[k].written : path \notin DOMAIN files
                  /\ \A dir \in calls[k].made :
                        IsBelow(dir, project_path) => dir \notin dirs

IsPythonOrJava(project_type) ==
    Lower(project_type) \in { T_python, Lower(T_Java) }

\* C9: for a framework id that is no entry of the registry, and the project
\* types python and java, generate_test_project fails; it never returns a
\* project built from another framework's templates or dependencies.
C9_UnknownFrameworkFails ==
    \A k \in DOMAIN calls :
        (Ran(calls[k]) /\ calls[k].framework \notin FrameworkIds
            /\ IsPythonOrJava(calls[k].project_type))
            => calls[k].status = "raised"

Invalid(scenario) == scenario.test_name = <<>> \/ scenario.steps = <<>>

\* C10: generate_project emits no project for a scenario list in which some
\* scenario has an empty name or an empty step list: the request fails and
\* no file is written.
C10_InvalidScenariosRejected ==
    \A k \in DOMAIN calls :
        (\E i \in DOMAIN calls[k].scenarios : Invalid(calls[k].scenarios[i]))
            => /\ calls[k].http # 200
               /\ DOMAIN calls[k].written = {}

Finished(proc) == proc.status \in { "returned", "raised" }

\* the files under the project_path call p returned
TreeOf(p) ==
    { path \in DOMAIN files : IsBelow(path, ProjectPath(procs[p].project_name)) }

\* C8: whatever the interleaving of two concurrent calls, when both have
\* finished the tree under the project_path a call returned holds exactly the
\* files in that call's files_created, each with the content that call wrote.
C8_EachTreeIsItsCall ==
    (\A p \in DOMAIN procs : Finished(procs[p]))
        => \A p \in DOMAIN procs :
              procs[p].status = "returned"
                 => /\ TreeOf(p) = { ProjectPath(procs[p].project_name) \o entry :
                                       entry \in Range(procs[p].files_created) }
                    /\ \A path \in TreeOf(p) : files[path] = procs[p].written[path]

----------------------------------------------------------------------------
(* Claims about the files of a project                                     *)

FileName(entry) == entry[Len(entry)]

\* what a listed file is, by its name; pom.xml is both the build file and
\* the dependency manifest of a Maven project
KindsOf(entry) ==
    LET name == FileName(entry)
    IN CASE name = <<"requirements.txt">> -> { "manifest" }
         [] name = <<"pom.xml">> -> { "manifest", "build" }
         [] name \in { <<"setup.sh">>, <<"setup.bat">> } -> { "setup" }
         [] name \in { <<"config.py">>, <<"config.properties">> } -> { "config" }
         [] name = <<"run_tests.py">> -> { "runner" }
         [] name = <<"testng.xml">> -> { "suite" }
         [] name = <<"README.md">> -> { "readme" }
         [] name[Len(name)] \in { ".py", ".java" } -> { "scenario" }
         [] OTHER -> {}

CountOf(files_created, kind) ==
    Cardinality({ i \in DOMAIN files_created : kind \in KindsOf(files_created[i]) })

IsJava(project_type) == Lower(project_type) = Lower(T_Java)

\* C11: for the flat and the build-system layout and every list of n
\* scenarios, a successful generate_test_project lists exactly n per-scenario
\* files and exactly one configuration file, dependency manifest, runner,
\* setup script and README, and for the build-system layout also exactly one
\* build file and one test-suite descriptor.
C11_FilesCreatedShape ==
    \A k \in DOMAIN calls :
        calls[k].status = "returned"
            => LET fc == calls[k].files_created
               IN /\ CountOf(fc, "scenario") = Len(calls[k].scenarios)
                  /\ \A kind \in { "config", "manifest", "runner", "setup", "readme" } :
                        CountOf(fc, kind) = 1
                  /\ IsJava(calls[k].project_type)
                        => CountOf(fc, "build") = 1 /\ CountOf(fc, "suite") = 1

\* the frameworks whose import template a file carries
ImportsOf(content) ==
    { f \in FrameworkIds : framework_templates[f].imports \in Range(content) }

\* the libraries a manifest lists
Listed(content) == { content[i][1] : i \in DOMAIN content }

IsManifest(path) == FileName(path) \in { <<"requirements.txt">>, <<"pom.xml">> }

\* C12: for every framework id of the registry and every project type, the
\* manifest generate_test_project writes (requirements.txt or pom.xml) lists
\* the library of the framework whose imports the per-scenario sources use.
C12_ManifestMatchesSources ==
    \A k \in DOMAIN calls :
        (calls[k].status = "returned" /\ calls[k].framework \in FrameworkIds)
            => \A source \in DOMAIN calls[k].written, manifest \in DOMAIN calls[k].written :
                  ("scenario" \in KindsOf(source) /\ IsManifest(manifest))
                     => \A f \in ImportsOf(calls[k].written[source].content) :
                           ImportedLibrary(f) \in Listed(calls[k].written[manifest].content)

----------------------------------------------------------------------------
(* Claims about download_project                                           *)

\* unzip: the relative path is the entry's name cut at the separators, the
\* permission bits are the low nine bits of the upper half of external_attr
ExtractedPath(filename) == SplitOn(filename, "/", <<>>)

OwnerMayExecute(external_attr) == ((external_attr.upper % 512) \div 64) % 2 = 1

Extracted(entries) ==
    [ path \in { ExtractedPath(a) : a \in DOMAIN entries } |->
        LET entry == entries[CHOOSE a \in DOMAIN entries : ExtractedPath(a) = path]
        IN [content |-> entry.data, exec |-> OwnerMayExecute(entry.external_attr)] ]

\* the files below a directory, by their path relative to it
TreeBelow(fs, dir) ==
    [ rel \in { SubSeq(p, Len(dir) + 1, Len(p)) : p \in { q \in DOMAIN fs : IsBelow(q, dir) } }
        |-> fs[dir \o rel] ]

\* the last request served was a download that was answered with an archive
JustDownloaded == lastDownload.http = 200 /\ lastDownload.after = Len(calls)

\* C13: extracting the archive download_project wrote gives the relative
\* paths of the project tree, each with the content and the executable bit
\* it has on disk.
C13_ArchiveRoundTrip ==
    JustDownloaded
        => Extracted(lastDownload.entries)
              = TreeBelow(files, ProjectPath(lastDownload.project_name))

\* an archive with an executable setup script and a file in a subdirectory
C13_ArchiveWithScriptAndSubdirectory ==
    /\ JustDownloaded
    /\ <<"setup.sh">> \in DOMAIN lastDownload.entries
    /\ Extracted(lastDownload.entries)[<< <<"setup.sh">> >>].exec
    /\ \E a \in DOMAIN lastDownload.entries : Len(ExtractedPath(a)) > 1

\* C14: download_project for a project name whose directory does not exist
\* answers 404 'Project not found', not the 500 of a failed archive creation,
\* and writes no archive.
C14_MissingProjectIs404 ==
    (lastDownload.http # 0 /\ ProjectPath(lastDownload.project_name) \notin dirs)
        => /\ lastDownload.http = 404
           /\ (lastDownload.project_name \o <<".zip">>) \notin DOMAIN exports

----------------------------------------------------------------------------
(* Claims about the lowering of single steps                               *)

IsComment(line) == line # <<>> /\ line[1] = "#"

\* the lines of the action, without the line of the expected result
LowBody ==
    IF lowStep.expected_result # <<>>
    THEN SubSeq(lowResult.lines, 1, Len(lowResult.lines) - 1)
    ELSE lowResult.lines

\* C15: a step whose case-folded action is 'ac' (open), with a URL as test
\* data, is lowered to a navigation call to the URL under every web
\* framework, to one commented no-op under the mobile framework, and to a
\* GET on the URL followed by an assertion of status 200 under the api
\* framework.
C15_OpenLowering ==
    (lowResult.status = "returned" /\ Lower(lowStep.action) = Tok_ac
        /\ lowStep.test_data # <<>>)
        => /\ lowFramework \in WebFrameworks
                => /\ Len(LowBody) = 1
                   /\ ~IsComment(LowBody[1])
                   /\ Contains(LowBody[1], lowStep.test_data)
           /\ lowFramework \in MobileFrameworks
                => Len(LowBody) = 1 /\ IsComment(LowBody[1])
           /\ lowFramework \in ApiFrameworks
                => /\ Len(LowBody) = 2
                   /\ ~IsComment(LowBody[1])
                   /\ Contains(LowBody[1], lowStep.test_data)
                   /\ LowBody[2] = <<"assert response.status_code == 200">>

\* C16: for every framework and every step whose case-folded action is not
\* in the action table, the lowering returns and the emitted lines hold a
\* comment line that carries the token as it was written.
C16_UnknownTokenIsTodo ==
    (lowFramework \in FrameworkIds /\ lowResult.status # "not run"
        /\ Lower(lowStep.action) \notin ActionTable)
        => /\ lowResult.status = "returned"
           /\ \E i \in DOMAIN lowResult.lines :
                 /\ IsComment(lowResult.lines[i])
                 /\ Contains(lowResult.lines[i], lowStep.action)

\* the step is one the lowering treats as click, type or select
LowersAsElementAction == Lower(lowStep.action) \in { Tok_tikla, Tok_yaz, Tok_sec }

\* C17: for a step that the lowering treats as click, type or select and
\* whose locator value is empty, validate_test_scenarios records a warning.
C17_EmptyLocatorWarned ==
    (validation.status = "returned" /\ LowersAsElementAction
        /\ lowStep.locator_value = <<>>)
        => validation.warnings # <<>>

\* the read has been made
ReadDone == readResult.status # "not run"

\* C18: for a sheet whose header has no 'Test ID' column, read_test_scenarios
\* raises; it returns no scenario list, not even an empty one.
C18_MissingTestIdColumnRaises ==
    (ReadDone /\ Col_TestId \notin columns) => readResult.status = "raised"

\* a row with a Test ID whose step-number cell is empty
HasEmptyStepCell(row) == row.test_id # <<>> /\ row.step_no = EmptyCell

\* C19: for a sheet in which a row with a non-empty Test ID has an empty
\* step-number cell, the read returns, and the step of every such row has a
\* step number of at least 1.
C19_EmptyStepCellTolerated ==
    (ReadDone /\ \E i \in DOMAIN rows : HasEmptyStepCell(rows[i]))
        => /\ Returned
           /\ LET kept == KeptRows(rows)
                  out == readResult.scenarios
              IN /\ Len(out) = Len(kept)
                 /\ \A k \in DOMAIN kept :
                      (k \in DOMAIN out /\ HasEmptyStepCell(kept[k]))
                          => \A n \in DOMAIN out[k].steps :
                                 out[k].steps[n].step_number >= 1

\* C20: in a returned list the k-th scenario holds exactly the step of the
\* k-th row that has a Test ID, so that each such row gives one step to one
\* scenario and the scenarios stand in source order; and the list is the one
\* returned for the sheet without its rows that have no Test ID.
C20_RowsContributeIndependently ==
    Returned =>
        LET kept == KeptRows(rows)
            out == readResult.scenarios
        IN /\ Len(out) = Len(kept)
           /\ \A k \in DOMAIN kept :
                k \in DOMAIN out => out[k].steps = <<StepOfRow(kept[k])>>
           /\ readResult = read_test_scenarios(kept)

\* the per-scenario source of the call carries class_name: for the flat
\* layout a written file declares the class, for the build-system layout
\* files_created lists <class_name>.java
CarriesClass(call, class_name) ==
    IF IsJava(call.project_type)
    THEN \E i \in DOMAIN call.files_created :
            FileName(call.files_created[i]) = class_name \o <<".java">>
    ELSE \E path \in DOMAIN call.written :
            \E n \in DOMAIN call.written[path].content :
                call.written[path].content[n] = <<"class ">> \o class_name \o <<":">>

\* no two scenarios of the list are written to one flat-layout file
DistinctFileNames(scenarios) ==
    \A i, j \in DOMAIN scenarios :
        i # j => Lower(scenarios[i].test_id) # Lower(scenarios[j].test_id)

\* C21: for every scenario name and both layouts, building the class name
\* raises nothing, and the per-scenario source of a finished call (whose
\* scenarios go to files of their own) carries the class named 'Test'
\* followed by the camel-cased words of the name.
C21_ClassNameIsTestCamel ==
    \A k \in DOMAIN calls :
        IsPythonOrJava(calls[k].project_type) =>
            /\ calls[k].error # "IndexError"
            /\ (calls[k].status = "returned" /\ DistinctFileNames(calls[k].scenarios)) =>
                 \A i \in DOMAIN calls[k].scenarios :
                     CarriesClass(calls[k],
                                  generate_class_name(calls[k].scenarios[i].test_name))

\* C22: in every generate_project request the quota is consulted before any
\* file is written (a refused request leaves the disk as it was), and for a
\* user other than the admin the excel_processing usage is one higher after a
\* successful generation and unchanged after a failed one.
C22_QuotaCheckedThenCounted ==
    [][ Len(calls') = Len(calls) + 1 =>
          LET call == calls'[Len(calls')]
          IN /\ call.http = 403 => (files' = files /\ dirs' = dirs)
             /\ (call.user # "admin" /\ call.http = 200)
                  => current_usage'[call.user] = current_usage[call.user] + 1
             /\ call.http # 200 => current_usage' = current_usage ]_vars

\* C23: under the requests framework a step that lowers as click, type or
\* select, whatever its locator and datum, gets comment lines only.
C23_ApiElementStepsAreComments ==
    (lowFramework \in ApiFrameworks /\ lowResult.status = "returned"
        /\ LowersAsElementAction)
        => \A i \in DOMAIN lowResult.lines : IsComment(lowResult.lines[i])

\* the frameworks for which _get_element_code has a locator_map
HasLocatorMap == { F_selenium, F_appium }

\* a click step with a locator value was lowered under a framework that has
\* a locator_map: the first emitted line is the assignment of the element code
ElementLocated ==
    /\ lowResult.status = "returned"
    /\ lowFramework \in HasLocatorMap
    /\ Lower(lowStep.action) = Tok_tikla
    /\ lowStep.locator_value # <<>>

StepLinesOf(call, scenario) ==
    IF IsJava(call.project_type)
    THEN JavaStepsCode(scenario.steps, get_java_framework(call.framework))
    ELSE StepsCode(scenario.steps, call.framework)

\* a statement that asserts success
IsPositiveAssertion(line) ==
    line \in { <<"            assert True">>, <<"            Assert.assertTrue(true);">> }

IsCommentLine(line) ==
    \E k \in DOMAIN line : line[k] = "#" /\ \A j \in 1..(k - 1) : line[j] = "            "

\* content holds body from line a + 1 on, and after it, behind comment lines
\* only, a positive assertion
BodyThenAssertion(content, body) ==
    \E a \in 0..Len(content) :
        /\ a + Len(body) <= Len(content)
        /\ SubSeq(content, a + 1, a + Len(body)) = body
        /\ \E b \in (a + Len(body) + 1)..Len(content) :
              /\ IsPositiveAssertion(content[b])
              /\ \A c \in (a + Len(body) + 1)..(b - 1) : IsCommentLine(content[c])

\* C25: for both layouts and every scenario, also one without steps or with
\* unrecognised actions only, the source written last by a finished call
\* holds the lines of the steps of its last scenario in step order, followed
\* by a positive assertion.
C25_StepsThenAssertion ==
    \A k \in DOMAIN calls :
        (calls[k].status = "returned" /\ calls[k].scenarios # <<>>
            /\ IsPythonOrJava(calls[k].project_type))
            => LET scenario == calls[k].scenarios[Len(calls[k].scenarios)]
               IN \E path \in DOMAIN calls[k].written :
                     BodyThenAssertion(calls[k].written[path].content,
                                       StepLinesOf(calls[k], scenario))

\* C26: a call of validate_test_scenarios leaves the scenario list it was
\* given as it was, and in the record it returns valid is false exactly when
\* the errors list is non-empty, which is exactly when tests_with_errors > 0.
C26_ValidationIsReadOnly ==
    [][ validation'.status = "returned" =>
          /\ valScenarios' = valScenarios
          /\ (validation'.valid = FALSE) <=> (validation'.errors # <<>>)
          /\ (validation'.errors # <<>>) <=> (validation'.tests_with_errors > 0) ]_vars

\* a validated list with a scenario in error, one without, and a warning
C26_MixedListValidated ==
    /\ validation.status = "returned"
    /\ validation.tests_with_errors > 0
    /\ validation.tests_with_errors < validation.total_tests
    /\ validation.warnings # <<>>

\* C27: for every project name, scenario id and scenario name, also ones
\* that hold separators or dots, every file and every directory a call of
\* generate_test_project creates is the project path of the call or lies
\* beneath it.
C27_WritesStayInProject ==
    \A k \in DOMAIN calls :
        LET project_path == ProjectPath(calls[k].project_name)
        IN /\ \A path \in DOMAIN calls[k].written : IsBelow(path, project_path)
           /\ \A dir \in calls[k].made :
                 \/ IsBelow(dir, project_path)
                 \/ dir \in Ancestors(project_path)

\* C28: for a framework of each kind and every step, the Java lowering emits
\* lines for the step exactly when the Python lowering emits action lines
\* for it.
C28_JavaLoweringParity ==
    (lowFramework \in { F_selenium, F_appium, F_requests }
        /\ lowResult.status = "returned" /\ lowJavaResult.status = "returned")
        => (LowBody # <<>>) <=> (lowJavaResult.lines # <<>>)

\* the requests among the first n that the trial user made and that succeeded
TrialSuccesses(n) ==
    { k \in 1..n : calls[k].user = "trial" /\ calls[k].http = 200 }

\* C29: of the generate_project requests of a trial user at most
\* ExcelProcessingLimit succeed, and every request made after that many have
\* succeeded is refused.
C29_TrialQuotaEnforced ==
    /\ Cardinality(TrialSuccesses(Len(calls))) <= ExcelProcessingLimit
    /\ \A k \in DOMAIN calls :
          (calls[k].user = "trial"
              /\ Cardinality(TrialSuccesses(k - 1)) >= ExcelProcessingLimit)
              => calls[k].http = 403

\* C30: of two download_project requests that overlap, each one that is
\* answered receives the complete archive of its project: every file of the
\* project, as it is on disk.
C30_OverlappingDownloadsComplete ==
    \A p \in DOMAIN procs :
        (procs[p].pc = "done" /\ procs[p].http = 200)
            => procs[p].received = Archive(files, ProjectPath(procs[p].project_name))

=============================================================================
